---- MODULE Spec2Model ----
(***************************************************************************)
(* Model of xnoapi's backtesting core:                                     *)
(*   - TradingBacktest.apply_tp_sl / apply_tp_sl_trailing                  *)
(*     (src/xnoapi/metrics/single_asset.py), the bar-by-bar scan that      *)
(*     rewrites a position series with forced exits;                       *)
(*   - the PnL engines TradingBacktest and Backtest_Derivates and the      *)
(*     Metrics calculator (src/xnoapi/vn/metrics).                         *)
(*                                                                         *)
(* Arithmetic.  Prices and thresholds are integers.  A comparison of       *)
(* pnl_percentage is decided by cross-multiplication with the (positive)   *)
(* entry price: "pnl_percentage >= tp_percentage" is                       *)
(* (current - entry) * 100 >= tp * entry, which agrees with the double     *)
(* comparison for every close and threshold the calls of this model are    *)
(* made with.  The trailing stop level is kept multiplied by 100, with the *)
(* sign of the rounding error of the double product (see FloatExcess).     *)
(***************************************************************************)
EXTENDS Integers, Sequences, FiniteSets, TLC

(***************************************************************************)
(* Bounds and input domains of the position adjuster.                      *)
(***************************************************************************)
MaxLen == 5

\* frames with a position value outside {-1, 0, 1} are drawn up to this length
MaxInvalidLen == 4

PriceSet == {100, 110}

TpSet == {5, 10}

SlSet == {5, 10}

PositionValues == {-1, 0, 1}

\* position values a caller may hand in, 2 being one outside {-1, 0, 1}
InputPositionValues == {-1, 0, 1, 2}

SeriesOver(S, n) == UNION {[1..k -> S] : k \in 0..n}

VARIABLES
    method,          \* "apply_tp_sl" | "apply_tp_sl_trailing"
    index_is_dt,     \* isinstance(df.index, pd.DatetimeIndex)
    tp_percentage,
    sl_percentage,
    heap,            \* the Series objects: heap[ref] is the values of object ref
    prices,          \* local: ref of df["close"]
    positions,       \* local: ref of df["position"]
    new_positions,   \* local: ref of the output series, 0 while unbound
    pc,              \* "call" | "loop" | "returned" | "raised"
    i,               \* loop index, 1-based
    hw,              \* the tracking locals of the holding window
    result,          \* what the call gave back
    cls,             \* the engine class constructed
    arg_df,          \* the frame handed to the constructor, in the caller's order
    arg_pnl_type,    \* the pnl_type handed to the constructor
    self,            \* the engine object
    metrics,         \* the Metrics object built on a Backtest_Derivates
    ppc,             \* "new" | "built" | "raised"
    ret              \* the last method call and what it gave back

adjusterVars == <<method, index_is_dt, tp_percentage, sl_percentage, heap,
                  prices, positions, new_positions, pc, i, hw, result>>

pnlVars == <<cls, arg_df, arg_pnl_type, self, metrics, ppc, ret>>

vars == <<adjusterVars, pnlVars>>

\* the two Series objects of the caller's frame
CloseRef == 1

PositionRef == 2

(***************************************************************************)
(* Series objects.  positions.copy() allocates a new object holding the    *)
(* same values; new_positions.iloc[i] = 0 writes into the object the       *)
(* reference names, whoever else holds that reference.                     *)
(***************************************************************************)
SeriesAlias(h, ref) == [heap |-> h, ref |-> ref]

SeriesCopy(h, ref) == [heap |-> Append(h, h[ref]), ref |-> Len(h) + 1]

iloc_set(h, ref, k, v) == [h EXCEPT ![ref][k] = v]

Unique(series) == {series[k] : k \in DOMAIN series}

\* assert set(positions.unique()) == {-1, 0, 1}
PositionsAssert(series) == Unique(series) = {-1, 0, 1}

\* the locals before the loop: entry_price = None, entry_position = 0, ...
TrackingInit ==
    [entry_price |-> "None", entry_position |-> 0, profit_flag |-> FALSE,
     max_price |-> "None", min_price |-> "None", trailing_sl |-> "None"]

\* pnl_percentage * entry_price: the sign and the comparisons of
\* pnl_percentage, decided without the division by entry_price (> 0)
PnlTimesEntry(position, current_price, entry_price) ==
    IF position = 1
    THEN (current_price - entry_price) * 100
    ELSE (entry_price - current_price) * 100

ReachTp(w, position, current_price, tp) ==
    PnlTimesEntry(position, current_price, w.entry_price) >= tp * w.entry_price

\* the loss threshold compared with < in place of <=
ReachSlStrict(w, position, current_price, sl) ==
    PnlTimesEntry(position, current_price, w.entry_price) < -(sl * w.entry_price)

ReachSl(w, position, current_price, sl) ==
    PnlTimesEntry(position, current_price, w.entry_price) <= -(sl * w.entry_price)

\* lines 328-334 / 395-401: arm on the first touch, close on the next one
TakeProfit(w, reached) ==
    IF ~reached THEN [hw |-> w, close |-> FALSE]
    ELSE IF ~w.profit_flag
    THEN [hw |-> [w EXCEPT !.profit_flag = TRUE], close |-> FALSE]
    ELSE [hw |-> [w EXCEPT !.entry_position = 0, !.profit_flag = FALSE],
          close |-> TRUE]

(***************************************************************************)
(* One iteration of the loop of apply_tp_sl on the bar (position,          *)
(* current_price): the tracking locals after it, whether the bar was a     *)
(* holding bar, and which rule wrote new_positions.iloc[i] = 0.            *)
(***************************************************************************)
apply_tp_sl_body(w, position, current_price, tp, sl) ==
    IF position = 0
    THEN [hw |-> [w EXCEPT !.entry_position = 0, !.profit_flag = FALSE],
          hold |-> FALSE, tp_hit |-> FALSE, sl_hit |-> FALSE,
          tp_close |-> FALSE, sl_close |-> FALSE]
    ELSE IF position # w.entry_position
    THEN [hw |-> [w EXCEPT !.entry_price = current_price,
                           !.entry_position = position,
                           !.profit_flag = FALSE],
          hold |-> FALSE, tp_hit |-> FALSE, sl_hit |-> FALSE,
          tp_close |-> FALSE, sl_close |-> FALSE]
    ELSE LET tpHit == ReachTp(w, position, current_price, tp)
             slHit == ReachSl(w, position, current_price, sl)
             t     == TakeProfit(w, tpHit)
         IN  [hw |-> IF slHit THEN [t.hw EXCEPT !.entry_position = 0] ELSE t.hw,
              hold |-> TRUE, tp_hit |-> tpHit, sl_hit |-> slHit,
              tp_close |-> t.close, sl_close |-> slHit]

(***************************************************************************)
(* The stop level is the double product extreme * (1 - sl / 100) or        *)
(* extreme * (1 + sl / 100), which is not always the exact product:        *)
(* 100 * (1 + 10 / 100) is 110.00000000000001.  FloatExcess is the sign of *)
(* (double product) - (exact product) in IEEE-754 binary64, for the closes *)
(* and the stop percentages the calls of this model are made with.  A      *)
(* level is kept as its exact product times 100 and that sign.             *)
(***************************************************************************)
FloatExcess(position, extreme, sl) ==
    IF position = 1
    THEN IF extreme \notin {102, 104} THEN 0
         ELSE IF extreme = 104 /\ sl = 10 THEN 1 ELSE -1
    ELSE IF sl = 10 \/ extreme \in {102, 104} THEN 1 ELSE 0

\* trailing_sl for an extreme price: lines 381/383, 410/417
TrailingLevel(position, extreme, sl) ==
    [x100   |-> IF position = 1 THEN extreme * (100 - sl)
                ELSE extreme * (100 + sl),
     excess |-> FloatExcess(position, extreme, sl)]

\* current_price <= trailing_sl (long), current_price >= trailing_sl (short)
ReachTrailing(w, position, current_price) ==
    IF position = 1
    THEN \/ current_price * 100 < w.trailing_sl.x100
         \/ current_price * 100 = w.trailing_sl.x100 /\ w.trailing_sl.excess >= 0
    ELSE \/ current_price * 100 > w.trailing_sl.x100
         \/ current_price * 100 = w.trailing_sl.x100 /\ w.trailing_sl.excess <= 0

\* a stop-out that writes the 0 and forgets entry_position = 0
TrailingStopKeepsEntry(w, position, current_price, sl) ==
    IF ReachTrailing(w, position, current_price)
    THEN [hw |-> w, close |-> TRUE]
    ELSE IF position = 1 /\ current_price > w.max_price
    THEN [hw |-> [w EXCEPT !.max_price = current_price,
                           !.trailing_sl = TrailingLevel(1, current_price, sl)],
          close |-> FALSE]
    ELSE IF position # 1 /\ current_price < w.min_price
    THEN [hw |-> [w EXCEPT !.min_price = current_price,
                           !.trailing_sl = TrailingLevel(-1, current_price, sl)],
          close |-> FALSE]
    ELSE [hw |-> w, close |-> FALSE]

\* a stop that follows every close of the window, favourable or not
TrailingStopLoose(w, position, current_price, sl) ==
    IF ReachTrailing(w, position, current_price)
    THEN [hw |-> [w EXCEPT !.entry_position = 0], close |-> TRUE]
    ELSE IF position = 1
    THEN [hw |-> [w EXCEPT !.max_price = current_price,
                           !.trailing_sl = TrailingLevel(1, current_price, sl)],
          close |-> FALSE]
    ELSE [hw |-> [w EXCEPT !.min_price = current_price,
                           !.trailing_sl = TrailingLevel(-1, current_price, sl)],
          close |-> FALSE]

\* lines 403-417: stop out, or ratchet the extreme and the stop level
TrailingStop(w, position, current_price, sl) ==
    IF ReachTrailing(w, position, current_price)
    THEN [hw |-> [w EXCEPT !.entry_position = 0], close |-> TRUE]
    ELSE IF position = 1 /\ current_price > w.max_price
    THEN [hw |-> [w EXCEPT !.max_price = current_price,
                           !.trailing_sl = TrailingLevel(1, current_price, sl)],
          close |-> FALSE]
    ELSE IF position # 1 /\ current_price < w.min_price
    THEN [hw |-> [w EXCEPT !.min_price = current_price,
                           !.trailing_sl = TrailingLevel(-1, current_price, sl)],
          close |-> FALSE]
    ELSE [hw |-> w, close |-> FALSE]

\* the loop body with the new-entry branch leaving profit_flag as it is
apply_tp_sl_trailing_body_stale_flag(w, position, current_price, tp, sl) ==
    IF position = 0
    THEN [hw |-> [w EXCEPT !.entry_position = 0],
          hold |-> FALSE, tp_hit |-> FALSE, sl_hit |-> FALSE,
          tp_close |-> FALSE, sl_close |-> FALSE]
    ELSE IF position # w.entry_position
    THEN [hw |-> [w EXCEPT !.entry_price = current_price,
                           !.entry_position = position,
                           !.max_price = current_price,
                           !.min_price = current_price,
                           !.trailing_sl =
                               TrailingLevel(position, current_price, sl)],
          hold |-> FALSE, tp_hit |-> FALSE, sl_hit |-> FALSE,
          tp_close |-> FALSE, sl_close |-> FALSE]
    ELSE LET tpHit == ReachTp(w, position, current_price, tp)
             slHit == ReachTrailing(w, position, current_price)
             t     == TakeProfit(w, tpHit)
             s     == TrailingStop(t.hw, position, current_price, sl)
         IN  [hw |-> s.hw,
              hold |-> TRUE, tp_hit |-> tpHit, sl_hit |-> slHit,
              tp_close |-> t.close, sl_close |-> s.close]

(***************************************************************************)
(* One iteration of the loop of apply_tp_sl_trailing.  A flat bar clears   *)
(* entry_position only (line 368), not profit_flag.                        *)
(***************************************************************************)
apply_tp_sl_trailing_body(w, position, current_price, tp, sl) ==
    IF position = 0
    THEN [hw |-> [w EXCEPT !.entry_position = 0],
          hold |-> FALSE, tp_hit |-> FALSE, sl_hit |-> FALSE,
          tp_close |-> FALSE, sl_close |-> FALSE]
    ELSE IF position # w.entry_position
    THEN [hw |-> [w EXCEPT !.entry_price = current_price,
                           !.entry_position = position,
                           !.profit_flag = FALSE,
                           !.max_price = current_price,
                           !.min_price = current_price,
                           !.trailing_sl =
                               TrailingLevel(position, current_price, sl)],
          hold |-> FALSE, tp_hit |-> FALSE, sl_hit |-> FALSE,
          tp_close |-> FALSE, sl_close |-> FALSE]
    ELSE LET tpHit == ReachTp(w, position, current_price, tp)
             slHit == ReachTrailing(w, position, current_price)
             t     == TakeProfit(w, tpHit)
             s     == TrailingStop(t.hw, position, current_price, sl)
         IN  [hw |-> s.hw,
              hold |-> TRUE, tp_hit |-> tpHit, sl_hit |-> slHit,
              tp_close |-> t.close, sl_close |-> s.close]

(***************************************************************************)
(* The calls.  A call is made on a frame df = (close, position) with the   *)
(* thresholds tp_percentage and sl_percentage.                             *)
(***************************************************************************)
Frames(S, n) ==
    UNION {[1..k -> PriceSet] \X [1..k -> S] : k \in 0..n}

InputClose == heap[CloseRef]

InputPosition == heap[PositionRef]

\* Scenario A of the specification, section 8: the frame (close, position)
ScenarioAFrame == << <<100, 102, 104, 90>>, <<1, 1, 1, 1>> >>

\* the call of Scenario A: apply_tp_sl with tp = 3 and sl = 5 on that frame
ScenarioA ==
    /\ method = "apply_tp_sl"
    /\ InputClose = ScenarioAFrame[1]
    /\ InputPosition = ScenarioAFrame[2]
    /\ tp_percentage = 3
    /\ sl_percentage = 5
    /\ index_is_dt = TRUE

ScenarioACall ==
    /\ method = "apply_tp_sl"
    /\ heap = ScenarioAFrame
    /\ tp_percentage = 3
    /\ sl_percentage = 5
    /\ index_is_dt = TRUE

(***************************************************************************)
(* Frames of holding windows longer than the enumerated frames allow.      *)
(* Each holds every one of -1, 0 and 1, as the assert of lines 296/351     *)
(* demands before a bar is scanned.                                        *)
(***************************************************************************)
\* a long window 100, 110, 100, 110: two touches of tp = 10, not in a row
StaleFlagFrame ==
    << <<100, 100, 100, 110, 100, 110>>, <<-1, 0, 1, 1, 1, 1>> >>

\* a long window 100, 110, 90: a touch of tp = 10, then a loss of 10 percent
ArmedLossFrame == << <<100, 100, 100, 110, 90>>, <<-1, 0, 1, 1, 1>> >>

\* Scenario B of the specification, section 8: the long window 100, 110, 104
ScenarioBFrame == << <<100, 100, 100, 110, 104>>, <<-1, 0, 1, 1, 1>> >>

\* a long window 100, 110, a flat bar, and a second long window 100, 110
FlatWhileArmedFrame ==
    << <<100, 110, 100, 100, 110, 100>>, <<1, 1, 0, 1, 1, -1>> >>

WindowFrames ==
    {StaleFlagFrame, ArmedLossFrame, ScenarioBFrame, FlatWhileArmedFrame}

WindowCalls ==
    /\ method \in {"apply_tp_sl", "apply_tp_sl_trailing"}
    /\ heap \in WindowFrames
    /\ tp_percentage = 10
    /\ sl_percentage \in SlSet
    /\ index_is_dt = TRUE

AdjusterInputs ==
    /\ method \in {"apply_tp_sl", "apply_tp_sl_trailing"}
    /\ \E f \in Frames(PositionValues, MaxLen) \cup
                 Frames(InputPositionValues, MaxInvalidLen) :
           heap = <<f[1], f[2]>>
    /\ tp_percentage \in TpSet
    /\ sl_percentage \in SlSet
    /\ index_is_dt \in BOOLEAN

AdjusterIdle ==
    /\ prices = 0
    /\ positions = 0
    /\ new_positions = 0
    /\ pc = "call"
    /\ i = 0
    /\ hw = TrackingInit
    /\ result = [kind |-> "none"]

AdjusterInit ==
    (AdjusterInputs \/ ScenarioACall \/ WindowCalls) /\ AdjusterIdle

Raise(exc) ==
    /\ pc' = "raised"
    /\ result' = [kind |-> "raise", exc |-> exc]

\* lines 289-301 / 344-361: everything before the loop
Prologue ==
    /\ pc = "call"
    /\ IF ~index_is_dt
       THEN /\ Raise("ValueError")
            /\ UNCHANGED <<heap, prices, positions, new_positions, i>>
       ELSE LET c == SeriesCopy(heap, PositionRef)
            IN  /\ prices' = CloseRef
                /\ positions' = PositionRef
                /\ new_positions' = c.ref
                /\ heap' = c.heap
                /\ IF PositionsAssert(heap[PositionRef])
                   THEN /\ pc' = "loop"
                        /\ i' = 1
                        /\ UNCHANGED result
                   ELSE /\ Raise("AssertionError")
                        /\ UNCHANGED i
    /\ hw' = TrackingInit
    /\ UNCHANGED <<method, index_is_dt, tp_percentage, sl_percentage>>
    /\ UNCHANGED pnlVars

\* one pass of "for i in range(0, len(prices))" with body r
LoopStep(r) ==
    /\ hw' = r.hw
    /\ heap' = IF r.tp_close \/ r.sl_close
               THEN iloc_set(heap, new_positions, i, 0)
               ELSE heap
    /\ i' = i + 1
    /\ UNCHANGED <<method, index_is_dt, tp_percentage, sl_percentage, prices,
                   positions, new_positions, pc, result>>
    /\ UNCHANGED pnlVars

\* return new_positions
Return ==
    /\ pc = "loop"
    /\ i > Len(heap[prices])
    /\ pc' = "returned"
    /\ result' = [kind |-> "return", ref |-> new_positions]
    /\ UNCHANGED <<method, index_is_dt, tp_percentage, sl_percentage, heap,
                   prices, positions, new_positions, i, hw>>
    /\ UNCHANGED pnlVars

apply_tp_sl_begin == method = "apply_tp_sl" /\ Prologue

apply_tp_sl_iter ==
    /\ method = "apply_tp_sl"
    /\ pc = "loop"
    /\ i <= Len(heap[prices])
    /\ LoopStep(apply_tp_sl_body(hw, heap[positions][i], heap[prices][i],
                                 tp_percentage, sl_percentage))

apply_tp_sl_return == method = "apply_tp_sl" /\ Return

apply_tp_sl_trailing_begin == method = "apply_tp_sl_trailing" /\ Prologue

apply_tp_sl_trailing_iter ==
    /\ method = "apply_tp_sl_trailing"
    /\ pc = "loop"
    /\ i <= Len(heap[prices])
    /\ LoopStep(apply_tp_sl_trailing_body(hw, heap[positions][i],
                                          heap[prices][i],
                                          tp_percentage, sl_percentage))

apply_tp_sl_trailing_return == method = "apply_tp_sl_trailing" /\ Return

\* no engine is constructed while the adjuster runs
NoEngine ==
    /\ cls = "none"
    /\ arg_df = <<>>
    /\ arg_pnl_type = "raw"
    /\ self = [kind |-> "none"]
    /\ metrics = [kind |-> "none"]
    /\ ppc = "new"
    /\ ret = [op |-> "none"]

Init == AdjusterInit /\ NoEngine

Next ==
    \/ apply_tp_sl_begin
    \/ apply_tp_sl_iter
    \/ apply_tp_sl_return
    \/ apply_tp_sl_trailing_begin
    \/ apply_tp_sl_trailing_iter
    \/ apply_tp_sl_trailing_return

Spec == Init /\ [][Next]_vars

(***************************************************************************)
(* The PnL engines and the metrics.                                        *)
(*                                                                         *)
(* Money is counted in units of 1/100000 (the denominator of the two fee   *)
(* constants), so every amount is an integer.  A float that a method       *)
(* returns is one of                                                       *)
(*   [k |-> "num", n, d]   the number n/d, d > 0                           *)
(*   [k |-> "nan"], [k |-> "inf"], [k |-> "-inf"]                          *)
(*   [k |-> "pow", base, exp]   base ** exp, a positive finite number      *)
(* and [k |-> "int", n] is a Python int.  Dates are integers in calendar   *)
(* order (the "date" strings of a frame are taken to sort as their dates   *)
(* do, as ISO dates); a bar's timestamp is (date, time), and the frame's   *)
(* index is the one built from these two columns.  pandas semantics are    *)
(* those of the 1.x/2.x line the package was written against (an in-place  *)
(* fillna on a selected column updates the frame); numpy float division    *)
(* by zero warns and gives nan or an infinity.                             *)
(***************************************************************************)
MaxBars == 3

CloseSet == {1, 2}

PnlTypes == {"raw", "after_fees", "net"}

\* transaction_fee = 2700 / 100000, overnight_fee = 2550 / 100000
FeeDenominator == 100000

TransactionFeeNumerator == 2700

OvernightFeeNumerator == 2550

NaN == [k |-> "nan"]

PosInf == [k |-> "inf"]

NegInf == [k |-> "-inf"]

Num(n, d) == [k |-> "num", n |-> n, d |-> d]

PyInt(n) == [k |-> "int", n |-> n]

Abs(x) == IF x < 0 THEN -x ELSE x

\* numpy float division a / b of two floats; a zero divisor gives nan or an
\* infinity (and a RuntimeWarning), never an exception
FDiv(a, b) ==
    IF a.k = "nan" \/ b.k = "nan" THEN NaN
    ELSE IF b.n = 0
    THEN IF a.n = 0 THEN NaN ELSE IF a.n < 0 THEN NegInf ELSE PosInf
    ELSE IF b.n > 0 THEN Num(a.n * b.d, a.d * b.n)
    ELSE Num(-(a.n * b.d), a.d * (-b.n))

\* numpy float power base ** exp
FPow(base, exp) ==
    IF base.k = "num" /\ base.n = base.d THEN Num(1, 1)
    ELSE IF base.k = "nan" \/ exp.k = "nan" THEN NaN
    ELSE IF base.k = "inf" THEN (IF exp.n < 0 THEN Num(0, 1) ELSE PosInf)
    ELSE IF base.n = 0 THEN (IF exp.n < 0 THEN PosInf ELSE Num(0, 1))
    ELSE [k |-> "pow", base |-> base, exp |-> exp]

\* chronological order of two rows' timestamps
Before(a, b) == a.date < b.date \/ (a.date = b.date /\ a.time < b.time)

Remove(seq, m) == [k \in 1..(Len(seq) - 1) |-> IF k < m THEN seq[k] ELSE seq[k + 1]]

\* df.sort_index(): the rows by ascending timestamp
RECURSIVE SortIndex(_)
SortIndex(rows) ==
    IF rows = << >> THEN << >>
    ELSE LET m == CHOOSE k \in DOMAIN rows :
                      \A j \in DOMAIN rows : j = k \/ Before(rows[k], rows[j])
         IN  <<rows[m]>> \o SortIndex(Remove(rows, m))

\* close.diff().shift(-1) * position, then fillna(0), in money units
PnlRaw(df, k) ==
    IF k < Len(df)
    THEN (df[k + 1].close - df[k].close) * df[k].position * FeeDenominator
    ELSE 0

\* position.diff().abs() * transaction_fee; the NaN of the first row is
\* filled with 0 where the column is used (total_fee)
TransactionFee(df, k) ==
    IF k = 1 THEN 0
    ELSE Abs(df[k].position - df[k - 1].position) * TransactionFeeNumerator

\* (date != date.shift()): the shifted column holds NaN on the first row,
\* and a date != NaN is True
DateChanged(df, k) == k = 1 \/ df[k].date # df[k - 1].date

\* (position > 0) & (date != date.shift())
Overnight(df, k) == df[k].position > 0 /\ DateChanged(df, k)

OvernightFee(df, k) == IF Overnight(df, k) THEN OvernightFeeNumerator ELSE 0

\* f"pnl_{self.pnl_type}"
PnlColumn(row, pnl_type) ==
    IF pnl_type = "raw" THEN row.pnl_raw ELSE row.pnl_after_fees

RECURSIVE SortedKeys(_)
SortedKeys(S) ==
    IF S = {} THEN << >>
    ELSE LET m == CHOOSE x \in S : \A y \in S : x <= y
         IN  <<m>> \o SortedKeys(S \ {m})

RECURSIVE GroupSum(_, _, _, _)
GroupSum(df, pnl_type, d, k) ==
    IF k = 0 THEN 0
    ELSE GroupSum(df, pnl_type, d, k - 1)
         + (IF df[k].date = d THEN PnlColumn(df[k], pnl_type) ELSE 0)

\* df.groupby(<date>)[f"pnl_{pnl_type}"].sum(): one entry per date, by date
GroupBySum(df, pnl_type) ==
    LET keys == SortedKeys({df[k].date : k \in DOMAIN df})
    IN  [j \in DOMAIN keys |->
            [date |-> keys[j],
             value |-> GroupSum(df, pnl_type, keys[j], Len(df))]]

RECURSIVE Cumsum(_, _)
Cumsum(v, k) == IF k = 0 THEN 0 ELSE Cumsum(v, k - 1) + v[k]

Values(series) == [j \in DOMAIN series |-> series[j].value]

\* series.diff().dropna(): the first entry becomes NaN and is dropped
DiffDropna(series) ==
    [j \in 1..(Len(series) - 1) |->
        [date |-> series[j + 1].date,
         value |-> series[j + 1].value - series[j].value]]

PnlTypeRawOnly(pnl_type) == pnl_type = "raw"

\* pnl_type in ["raw", "after_fees"]
PnlTypeValid(pnl_type) == pnl_type \in {"raw", "after_fees"}

\* TradingBacktest.__init__, lines 40-51: the sorted frame with pnl_raw
TradingBacktest_frame(df) ==
    LET sorted == SortIndex(df)
    IN  [k \in DOMAIN sorted |->
            [date |-> sorted[k].date, time |-> sorted[k].time,
             close |-> sorted[k].close, position |-> sorted[k].position,
             pnl_raw |-> PnlRaw(sorted, k)]]

\* Backtest_Derivates.__init__, lines 36-62: the sorted frame with its columns
Backtest_Derivates_frame(df) ==
    LET sorted == SortIndex(df)
    IN  [k \in DOMAIN sorted |->
            [date |-> sorted[k].date, time |-> sorted[k].time,
             close |-> sorted[k].close, position |-> sorted[k].position,
             pnl_raw |-> PnlRaw(sorted, k),
             transaction_fee |-> TransactionFee(sorted, k),
             overnight |-> Overnight(sorted, k),
             overnight_fee |-> OvernightFee(sorted, k),
             total_fee |-> TransactionFee(sorted, k) + OvernightFee(sorted, k),
             pnl_after_fees |-> PnlRaw(sorted, k)
                 - (TransactionFee(sorted, k) + OvernightFee(sorted, k))]]

\* compute_daily_pnl: groupby(self.df["date"])[f"pnl_{pnl_type}"].sum()
compute_daily_pnl(df, pnl_type) == GroupBySum(df, pnl_type)

\* daily_PNL: groupby(self.df.index.date)[f"pnl_{pnl_type}"].sum().cumsum()
daily_PNL(df, pnl_type) ==
    LET daily == GroupBySum(df, pnl_type)
    IN  [j \in DOMAIN daily |->
            [date |-> daily[j].date, value |-> Cumsum(Values(daily), j)]]

SeqMax(v) ==
    IF v = << >> THEN NaN
    ELSE Num(CHOOSE x \in Unique(v) : \A y \in Unique(v) : y <= x, 1)

SeqMin(v) ==
    IF v = << >> THEN NaN
    ELSE Num(CHOOSE x \in Unique(v) : \A y \in Unique(v) : x <= y, 1)

\* Python's max(x, 0) for a float x: x unless 0 > x, so nan stays nan
PyMaxZero(x) == IF x.k = "num" /\ x.n < 0 THEN PyInt(0) ELSE x

\* a Python int as the float numpy makes of it in an operation
AsFloat(x) == IF x.k = "int" THEN Num(x.n, 1) ELSE x

\* the columns TradingBacktest.estimate_minimum_capital writes into self.df
CapitalColumns(df, pnl_type) ==
    LET pnl == [k \in DOMAIN df |-> PnlColumn(df[k], pnl_type)]
    IN  [k \in DOMAIN df |->
            LET cum == Cumsum(pnl, k)
            IN  [cumulative_pnl |-> cum,
                 capital_required |->
                     Abs(df[k].position) * df[k].close * FeeDenominator - cum]]

\* max(self.df["capital_required"].max(), 0)
MinimumCapital(columns) ==
    PyMaxZero(SeqMax([k \in DOMAIN columns |-> columns[k].capital_required]))

\* min_capital != 0 (nan != 0 is True)
NonZero(x) == ~(x.k \in {"num", "int"} /\ x.n = 0)

\* daily_pnl / min_capital if min_capital != 0 else np.nan
PnlPercentage(daily, min_capital) ==
    IF NonZero(min_capital)
    THEN [k |-> "series",
          v |-> [j \in DOMAIN daily |->
                    FDiv(Num(daily[j].value, 1), AsFloat(min_capital))]]
    ELSE NaN

\* cumulative = daily_pnl.cumsum(); peak = cumulative.cummax();
\* (cumulative - peak).min()
DrawdownMin(daily) ==
    LET v    == Values(daily)
        cum  == [j \in DOMAIN v |-> Cumsum(v, j)]
        peak == [j \in DOMAIN v |->
                    CHOOSE x \in {cum[m] : m \in 1..j} :
                        \A m \in 1..j : cum[m] <= x]
    IN  SeqMin([j \in DOMAIN v |-> cum[j] - peak[j]])

\* drawdown.min() / estimate_minimum_capital(), a numpy float division
MaxDrawdown(daily, min_capital) == FDiv(DrawdownMin(daily), AsFloat(min_capital))

\* win_rate: wins / total if total > 0 else 0 (a Python int)
WinRate(daily) ==
    IF Len(daily) > 0
    THEN Num(Cardinality({j \in DOMAIN daily : daily[j].value > 0}), Len(daily))
    ELSE PyInt(0)

\* avg_loss: the mean of the negative entries, nan if there is none
AvgLoss(daily) ==
    LET losses == {j \in DOMAIN daily : daily[j].value < 0}
        v      == [j \in DOMAIN daily |->
                      IF daily[j].value < 0 THEN daily[j].value ELSE 0]
    IN  IF losses = {} THEN NaN
        ELSE Num(Cumsum(v, Len(v)), Cardinality(losses))

\* (loss_rate / win_rate) ** (1 / avg_loss) if avg_loss != 0 else np.nan.
\* With win_rate the Python int 0, loss_rate is the int 1 and 1 / 0 raises.
RiskOfRuin(daily) ==
    LET win_rate == WinRate(daily)
        avg_loss == AvgLoss(daily)
    IN  IF ~NonZero(avg_loss) THEN NaN
        ELSE IF win_rate.k = "int"
        THEN [k |-> "raise", exc |-> "ZeroDivisionError"]
        ELSE FPow(FDiv(Num(win_rate.d - win_rate.n, win_rate.d), win_rate),
                  FDiv(Num(1, 1), avg_loss))

(***************************************************************************)
(* Constructing an engine on a frame and calling its methods.              *)
(***************************************************************************)
\* bar k of a chronological frame: time k, on the date after the day breaks
\* before it
ChronologicalRow(k, brk, close, position) ==
    [date |-> 1 + Cardinality({j \in 1..(k - 1) : brk[j]}), time |-> k,
     close |-> close[k], position |-> position[k]]

ChronologicalFrames(n) ==
    UNION {{[k \in 1..m |-> ChronologicalRow(k, brk, c, q)] :
               brk \in [1..(m - 1) -> BOOLEAN],
               c \in [1..m -> CloseSet],
               q \in [1..m -> PositionValues]} : m \in 0..n}

Reverse(rows) == [k \in 1..Len(rows) |-> rows[Len(rows) + 1 - k]]

\* a frame that is long over a doubling of the price, so that the capital
\* required never exceeds the PnL earned, and then loses on the second day
ZeroCapitalLossFrame ==
    << [date |-> 1, time |-> 1, close |-> 1, position |-> 1],
       [date |-> 1, time |-> 2, close |-> 4, position |-> 0],
       [date |-> 2, time |-> 3, close |-> 2, position |-> 1],
       [date |-> 2, time |-> 4, close |-> 1, position |-> 0] >>

PnLInputs ==
    /\ cls \in {"TradingBacktest", "Backtest_Derivates"}
    /\ \E f \in ChronologicalFrames(MaxBars) : arg_df \in {f, Reverse(f)}
    /\ arg_pnl_type \in PnlTypes

ZeroCapitalLossCall ==
    /\ cls = "TradingBacktest"
    /\ arg_df = ZeroCapitalLossFrame
    /\ arg_pnl_type = "raw"

\* no adjuster call is made while an engine is used
NoAdjuster ==
    /\ method = "none"
    /\ index_is_dt = TRUE
    /\ tp_percentage = 0
    /\ sl_percentage = 0
    /\ heap = << >>
    /\ prices = 0
    /\ positions = 0
    /\ new_positions = 0
    /\ pc = "idle"
    /\ i = 0
    /\ hw = TrackingInit
    /\ result = [kind |-> "none"]

PnLInit ==
    /\ PnLInputs \/ ZeroCapitalLossCall
    /\ self = [kind |-> "none"]
    /\ metrics = [kind |-> "none"]
    /\ ppc = "new"
    /\ ret = [op |-> "none"]
    /\ NoAdjuster

InitRaise(exc) ==
    /\ ppc' = "raised"
    /\ ret' = [op |-> "__init__", val |-> [k |-> "raise", exc |-> exc]]
    /\ UNCHANGED self

InitDone(object) ==
    /\ ppc' = "built"
    /\ ret' = [op |-> "__init__", val |-> [k |-> "none"]]
    /\ self' = object

TradingBacktest_init ==
    /\ cls = "TradingBacktest"
    /\ ppc = "new"
    /\ IF ~PnlTypeValid(arg_pnl_type) THEN InitRaise("ValueError")
       ELSE IF arg_pnl_type = "after_fees" THEN InitRaise("NotImplementedError")
       ELSE LET frame == TradingBacktest_frame(arg_df)
            IN  InitDone([kind |-> "TradingBacktest",
                          df |-> frame,
                          pnl_type |-> arg_pnl_type,
                          daily_pnl |-> compute_daily_pnl(frame, arg_pnl_type),
                          capital |-> << >>])
    /\ UNCHANGED <<cls, arg_df, arg_pnl_type, metrics>>
    /\ UNCHANGED adjusterVars

Backtest_Derivates_init ==
    /\ cls = "Backtest_Derivates"
    /\ ppc = "new"
    /\ IF ~PnlTypeValid(arg_pnl_type) THEN InitRaise("ValueError")
       ELSE InitDone([kind |-> "Backtest_Derivates",
                      df |-> Backtest_Derivates_frame(arg_df),
                      pnl_type |-> arg_pnl_type])
    /\ UNCHANGED <<cls, arg_df, arg_pnl_type, metrics>>
    /\ UNCHANGED adjusterVars

\* Metrics(backtest): self.daily_pnl = backtest.daily_PNL().diff().dropna()
Metrics_init ==
    /\ self.kind = "Backtest_Derivates"
    /\ metrics.kind = "none"
    /\ metrics' = [kind |-> "Metrics",
                   daily_pnl |-> DiffDropna(daily_PNL(self.df, self.pnl_type))]
    /\ ret' = [op |-> "Metrics.__init__", val |-> [k |-> "none"]]
    /\ UNCHANGED <<cls, arg_df, arg_pnl_type, self, ppc>>
    /\ UNCHANGED adjusterVars

\* self.estimate_minimum_capital() on the engine as it is
estimate_minimum_capital ==
    MinimumCapital(CapitalColumns(self.df, self.pnl_type))

\* a method call that runs estimate_minimum_capital (which writes its two
\* columns into self.df) and gives back val
CallWithCapital(op, val) ==
    /\ self' = [self EXCEPT !.capital = CapitalColumns(self.df, self.pnl_type)]
    /\ ret' = [op |-> op, val |-> val]
    /\ UNCHANGED <<cls, arg_df, arg_pnl_type, metrics, ppc>>
    /\ UNCHANGED adjusterVars

\* a method call that only reads
CallPure(op, val) ==
    /\ ret' = [op |-> op, val |-> val]
    /\ UNCHANGED <<cls, arg_df, arg_pnl_type, self, metrics, ppc>>
    /\ UNCHANGED adjusterVars

TradingBacktest_estimate_minimum_capital ==
    /\ self.kind = "TradingBacktest"
    /\ CallWithCapital("estimate_minimum_capital", estimate_minimum_capital)

TradingBacktest_compute_pnl_percentage ==
    /\ self.kind = "TradingBacktest"
    /\ CallWithCapital("compute_pnl_percentage",
                       PnlPercentage(self.daily_pnl, estimate_minimum_capital))

TradingBacktest_max_drawdown ==
    /\ self.kind = "TradingBacktest"
    /\ CallWithCapital("max_drawdown",
                       MaxDrawdown(self.daily_pnl, estimate_minimum_capital))

TradingBacktest_risk_of_ruin ==
    /\ self.kind = "TradingBacktest"
    /\ CallPure("risk_of_ruin", RiskOfRuin(self.daily_pnl))

Metrics_risk_of_ruin ==
    /\ metrics.kind = "Metrics"
    /\ CallPure("Metrics.risk_of_ruin", RiskOfRuin(metrics.daily_pnl))

PnLNext ==
    \/ TradingBacktest_init
    \/ Backtest_Derivates_init
    \/ Metrics_init
    \/ TradingBacktest_estimate_minimum_capital
    \/ TradingBacktest_compute_pnl_percentage
    \/ TradingBacktest_max_drawdown
    \/ TradingBacktest_risk_of_ruin
    \/ Metrics_risk_of_ruin

SpecPnL == PnLInit /\ [][PnLNext]_vars

(***************************************************************************)
(* The scan as a function of the call's arguments: the tracking locals     *)
(* after the first k bars, and what the loop does on bar k.                *)
(***************************************************************************)
Body(m, w, position, current_price, tp, sl) ==
    IF m = "apply_tp_sl"
    THEN apply_tp_sl_body(w, position, current_price, tp, sl)
    ELSE apply_tp_sl_trailing_body(w, position, current_price, tp, sl)

RECURSIVE BarOutcome(_, _, _, _, _, _)
BarOutcome(m, close, position, tp, sl, k) ==
    Body(m,
         IF k = 1 THEN TrackingInit
         ELSE BarOutcome(m, close, position, tp, sl, k - 1).hw,
         position[k], close[k], tp, sl)

Finished == pc \in {"returned", "raised"}

\* the precondition of the adjuster: positions restricted to {-1, 0, 1}
InputInRange == Unique(InputPosition) \subseteq PositionValues

\* on no holding bar of the input does the price reach either threshold
NoThresholdReached ==
    \A k \in DOMAIN InputPosition :
        LET r == BarOutcome(method, InputClose, InputPosition,
                            tp_percentage, sl_percentage, k)
        IN  ~r.tp_hit /\ ~r.sl_hit

Returned == pc = "returned" /\ result.kind = "return"

Output == heap[result.ref]

\* a frame with at least one bar
NonEmpty == InputPosition # << >>

\* C1 (as claimed; refuted by the assert of lines 296/351): for every
\* (non-empty) input whose positions all lie in {-1, 0, 1} and thresholds
\* > 0, the call returns a series of the input's length whose k-th value is
\* the input's or 0.
C1_ReturnsSameLengthInputOrZero ==
    (Finished /\ index_is_dt /\ NonEmpty /\ InputInRange
        /\ tp_percentage > 0 /\ sl_percentage > 0)
    => /\ Returned
       /\ Len(Output) = Len(InputPosition)
       /\ \A k \in DOMAIN InputPosition : Output[k] \in {InputPosition[k], 0}

\* What the code does give: whenever the call returns, the returned series
\* has the input's length and each value is the input's or 0.
ReturnedInputOrZero ==
    Returned
    => /\ Len(Output) = Len(InputPosition)
       /\ \A k \in DOMAIN InputPosition : Output[k] \in {InputPosition[k], 0}

\* C2 (as claimed; refuted by the assert of lines 296/351): for any
\* (non-empty) input with positions in {-1, 0, 1} on which no holding bar
\* reaches a threshold, the series returned equals the input position series.
C2_IdentityWithoutBreach ==
    (Finished /\ index_is_dt /\ NonEmpty /\ InputInRange
        /\ NoThresholdReached)
    => (Returned /\ Output = InputPosition)

\* What the code does give: a call that returns on such an input returns
\* the input positions.
ReturnedIdentityWithoutBreach ==
    (Returned /\ NoThresholdReached) => Output = InputPosition

\* C3 (as claimed; refuted by the assert of line 296): apply_tp_sl on
\* Scenario A (prices [100,102,104,90], positions [1,1,1,1], tp 3, sl 5)
\* returns [1,1,1,0].
C3_ScenarioAReturns1110 ==
    (ScenarioA /\ Finished) => (Returned /\ Output = <<1, 1, 1, 0>>)

\* What the loop would give on Scenario A, had the assert let it through:
\* bar 3 (104) only arms the flag, bar 4 (90) is closed by the stop-loss.
ScenarioALoopOutcome ==
    LET o(k) == BarOutcome("apply_tp_sl", <<100, 102, 104, 90>>,
                           <<1, 1, 1, 1>>, 3, 5, k)
    IN  /\ ~o(2).tp_hit /\ ~o(2).sl_hit
        /\ o(3).tp_hit /\ ~o(3).tp_close /\ ~o(3).sl_close
        /\ o(4).sl_close /\ ~o(4).tp_close

\* C4 (as claimed; refuted by the assert of lines 296/351): the call fails
\* with the validation error, before any bar is scanned or rewritten, if
\* some position lies outside {-1, 0, 1}, and every (non-empty) series
\* whose positions all lie in {-1, 0, 1} passes validation and is processed.
C4_ValidationIffOutOfRange ==
    (Finished /\ index_is_dt /\ NonEmpty)
    => /\ ~InputInRange
          => /\ result = [kind |-> "raise", exc |-> "AssertionError"]
             /\ i = 0
             /\ heap[new_positions] = InputPosition
       /\ InputInRange => Returned

\* What the code does give: the assert passes exactly the series in which
\* each of -1, 0 and 1 occurs and nothing else does.
ValidationIffAllThreeValues ==
    (Finished /\ index_is_dt)
    => (Returned <=> Unique(InputPosition) = {-1, 0, 1})

\* C10: the call never writes to the caller's close and position series,
\* whether it returns or fails, and the series it writes its zeros to and
\* returns is an object of its own.
C10_InputNeverMutated ==
    /\ [][/\ heap'[CloseRef] = heap[CloseRef]
          /\ heap'[PositionRef] = heap[PositionRef]]_vars
    /\ [](pc = "loop" => new_positions \notin {CloseRef, PositionRef})

\* C10 witness: a call has returned a series holding a forced 0 on a bar
\* where the caller's position series still holds its nonzero value.
C10_Witness ==
    /\ Returned
    /\ \E k \in DOMAIN InputPosition : Output[k] = 0 /\ InputPosition[k] # 0

(***************************************************************************)
(* Claims about single bars of the scan.  While pc = "loop", bar i is the  *)
(* bar the next pass scans and hw holds the tracking locals it starts      *)
(* from; a pass is a step with i' = i + 1.                                 *)
(***************************************************************************)
Scanning(m) == method = m /\ pc = "loop" /\ i <= Len(InputPosition)

\* bar i is a holding bar: its input position is the nonzero entry_position
HoldingBar == InputPosition[i] # 0 /\ InputPosition[i] = hw.entry_position

\* signed PnL% of bar k's close relative to the entry price is >= t
PnlPctAtLeast(k, t) ==
    hw.entry_position * (InputClose[k] - hw.entry_price) * 100
        >= t * hw.entry_price

\* signed PnL% of bar k's close relative to the entry price is <= -t
PnlPctAtMostMinus(k, t) ==
    hw.entry_position * (InputClose[k] - hw.entry_price) * 100
        <= -(t * hw.entry_price)

\* the entry bar of the window still open after bar k - 1: the first bar of
\* the run of bars, up to k - 1, that the scan has left at the position held
EntryBarOf(k) ==
    CHOOSE j \in 1..(k - 1) :
        /\ \A l \in j..(k - 1) : heap[new_positions][l] = hw.entry_position
        /\ j = 1 \/ heap[new_positions][j - 1] # hw.entry_position

\* no holding bar of the window before bar i had PnL% >= tp_percentage
FirstTouch ==
    \A j \in (EntryBarOf(i) + 1)..(i - 1) : ~PnlPctAtLeast(j, tp_percentage)

\* the pass over bar i writes 0 over a nonzero input position
ForcedFlat == InputPosition[i] # 0 /\ heap'[new_positions][i] = 0

\* C11 (as claimed; refuted by the profit_flag that lines 328-334 leave
\* set when PnL% falls back under tp_percentage): in apply_tp_sl, the first
\* holding bar of a window with PnL% >= tp_percentage keeps its input
\* position and only arms the flag; a bar is forced to 0 by take-profit
\* only when the immediately preceding bar of the same window also had
\* PnL% >= tp_percentage; after that forced close entry_position is 0 and
\* the flag is false.
C11_TakeProfitArmThenClose ==
    [][(Scanning("apply_tp_sl") /\ i' = i + 1 /\ HoldingBar
            /\ PnlPctAtLeast(i, tp_percentage))
       => /\ FirstTouch
             => /\ heap'[new_positions][i] = InputPosition[i]
                /\ hw' = [hw EXCEPT !.profit_flag = TRUE]
          /\ ForcedFlat
             => /\ PnlPctAtLeast(i - 1, tp_percentage)
                /\ hw'.entry_position = 0
                /\ ~hw'.profit_flag]_vars

\* What the code does give: a holding bar with PnL% >= tp_percentage is
\* forced to 0 exactly when some earlier holding bar of the window had
\* PnL% >= tp_percentage, in a row with it or not; otherwise it keeps its
\* position and arms the flag.
TakeProfitClosesOnSecondTouch ==
    [][(Scanning("apply_tp_sl") /\ i' = i + 1 /\ HoldingBar
            /\ PnlPctAtLeast(i, tp_percentage))
       => IF FirstTouch
          THEN /\ heap'[new_positions][i] = InputPosition[i]
               /\ hw' = [hw EXCEPT !.profit_flag = TRUE]
          ELSE /\ ForcedFlat
               /\ hw'.entry_position = 0
               /\ ~hw'.profit_flag]_vars

\* C12: in apply_tp_sl, every holding bar (input position equal to the
\* current nonzero entry_position) whose signed PnL% relative to the entry
\* price is <= -sl_percentage is written 0 on that same pass, whatever the
\* profit flag, and leaves entry_position = 0 for the next bar; the 0 is
\* still there in the series returned.
C12_StopLossImmediate ==
    /\ [][(Scanning("apply_tp_sl") /\ i' = i + 1 /\ HoldingBar
                /\ PnlPctAtMostMinus(i, sl_percentage))
           => /\ heap'[new_positions][i] = 0
              /\ hw'.entry_position = 0]_vars
    /\ []((method = "apply_tp_sl" /\ Returned)
           => \A k \in DOMAIN InputPosition :
                  LET r == BarOutcome(method, InputClose, InputPosition,
                                      tp_percentage, sl_percentage, k)
                  IN  (r.hold /\ r.sl_hit) => Output[k] = 0)

\* C12 witness: apply_tp_sl has just closed a holding bar on the loss side
\* while the profit flag was armed (the flag is still set, which only a
\* stop-loss exit leaves behind with entry_position = 0).
C12_Witness ==
    /\ method = "apply_tp_sl"
    /\ pc = "loop"
    /\ i > 1
    /\ hw.entry_position = 0
    /\ hw.profit_flag
    /\ InputPosition[i - 1] # 0
    /\ heap[new_positions][i - 1] = 0

\* the best close of bars a..b for the side held: the highest for a long
\* window, the lowest for a short one
BestClose(a, b) ==
    CHOOSE c \in {InputClose[k] : k \in a..b} :
        \A k \in a..b : IF hw.entry_position = 1
                        THEN InputClose[k] <= c
                        ELSE InputClose[k] >= c

\* 100 times best x (1 - sl/100) for a long window, best x (1 + sl/100) for
\* a short one, as an exact product
StopTimes100(best) == best * (100 - hw.entry_position * sl_percentage)

\* level a is not above level b
LevelLeq(a, b) ==
    a.x100 < b.x100 \/ (a.x100 = b.x100 /\ a.excess <= b.excess)

\* bar i's close is at or beyond the current stop level: at or under it for
\* a long window, at or over it for a short one
AtOrBeyondStop ==
    LET close == [x100 |-> InputClose[i] * 100, excess |-> 0]
    IN  IF hw.entry_position = 1
        THEN LevelLeq(close, hw.trailing_sl)
        ELSE LevelLeq(hw.trailing_sl, close)

\* Scenario B of the specification: apply_tp_sl_trailing with sl = 5 on a
\* frame whose long window, entered at bar 3, has the closes 100, 110, 104
ScenarioB ==
    /\ method = "apply_tp_sl_trailing"
    /\ InputClose = ScenarioBFrame[1]
    /\ InputPosition = ScenarioBFrame[2]
    /\ sl_percentage = 5

\* C13: in apply_tp_sl_trailing with 0 < sl_percentage < 100, within one
\* holding window the stop level never loosens (it does not fall for a long
\* window nor rise for a short one) and always equals the best close seen
\* since entry, entry included, times (1 - sl/100) for long or (1 + sl/100)
\* for short, that product being the double one the code computes; a
\* holding bar whose close is at or beyond the current stop level is forced
\* to 0.  On Scenario B the stop is 95, then 104.5, and the bar at 104 is
\* flattened.
C13_TrailingStopNeverLoosens ==
    /\ []((method = "apply_tp_sl_trailing" /\ pc \in {"loop", "returned"}
              /\ 0 < sl_percentage /\ sl_percentage < 100
              /\ hw.entry_position # 0)
           => LET best == BestClose(EntryBarOf(i), i - 1)
              IN  /\ hw.trailing_sl.x100 = StopTimes100(best)
                  /\ hw.trailing_sl.excess =
                         FloatExcess(hw.entry_position, best, sl_percentage))
    /\ [][(Scanning("apply_tp_sl_trailing") /\ i' = i + 1 /\ HoldingBar
                /\ 0 < sl_percentage /\ sl_percentage < 100)
           => /\ IF hw.entry_position = 1
                 THEN LevelLeq(hw.trailing_sl, hw'.trailing_sl)
                 ELSE LevelLeq(hw'.trailing_sl, hw.trailing_sl)
              /\ AtOrBeyondStop => heap'[new_positions][i] = 0]_vars
    /\ []((ScenarioB /\ pc = "loop")
           => /\ i = 4 => hw.trailing_sl = [x100 |-> 9500, excess |-> 0]
              /\ i = 5 => hw.trailing_sl = [x100 |-> 10450, excess |-> 0]
              /\ i = 6 => heap[new_positions] = <<-1, 0, 1, 1, 0>>)

\* C13 witness: the call of Scenario B has returned, the stop level having
\* been raised from 95 to 104.5 and the bar at 104 flattened.
C13_Witness ==
    /\ ScenarioB
    /\ Returned
    /\ hw.trailing_sl.x100 = 10450
    /\ Output = <<-1, 0, 1, 1, 0>>

\* What rounding does to the stop: a short window entered at 100 with
\* sl_percentage = 10 has the stop 110.00000000000001, and a bar closing at
\* 110, ten percent against the entry, is not at or beyond it.
ShortStopAboveTenPercent ==
    (Scanning("apply_tp_sl_trailing") /\ HoldingBar
        /\ hw.entry_position = -1 /\ sl_percentage = 10
        /\ hw.min_price = 100 /\ InputClose[i] = 110)
    => ~ReachTrailing(hw, -1, InputClose[i])

\* in series out, bar k was forced flat: a 0 over a nonzero input position
ForcedFlatAt(out, k) == InputPosition[k] # 0 /\ out[k] = 0

\* C14: in both variants, a bar that directly follows a forced-flat bar and
\* has a nonzero input position is treated as a new entry (entry price =
\* its own close, flag cleared) and keeps its input position; hence the
\* output never contains two consecutive bars that were both forced to 0,
\* and the entry bar of a window is never rewritten.
C14_ReentryAfterForcedExit ==
    /\ [][(pc = "loop" /\ i' = i + 1 /\ i > 1 /\ InputPosition[i] # 0
                /\ ForcedFlatAt(heap[new_positions], i - 1))
           => /\ hw'.entry_price = InputClose[i]
              /\ hw'.entry_position = InputPosition[i]
              /\ ~hw'.profit_flag
              /\ heap'[new_positions][i] = InputPosition[i]]_vars
    /\ [][(pc = "loop" /\ i' = i + 1 /\ InputPosition[i] # 0
                /\ InputPosition[i] # hw.entry_position)
           => heap'[new_positions][i] = InputPosition[i]]_vars
    /\ [](Returned
           => \A k \in DOMAIN InputPosition :
                  /\ k > 1 => ~(ForcedFlatAt(Output, k - 1)
                                  /\ ForcedFlatAt(Output, k))
                  /\ (InputPosition[k] # 0
                        /\ ~BarOutcome(method, InputClose, InputPosition,
                                       tp_percentage, sl_percentage, k).hold)
                     => Output[k] = InputPosition[k])

\* C14 witness: the scan has forced a bar flat and then taken the next bar,
\* of the same nonzero input position and another close, as a new entry.
C14_Witness ==
    /\ pc = "loop"
    /\ i > 2
    /\ ForcedFlatAt(heap[new_positions], i - 2)
    /\ InputPosition[i - 1] = InputPosition[i - 2]
    /\ InputClose[i - 1] # InputClose[i - 2]
    /\ heap[new_positions][i - 1] = InputPosition[i - 1]
    /\ hw.entry_position = InputPosition[i - 1]
    /\ hw.entry_price = InputClose[i - 1]

(***************************************************************************)
(* The variant of apply_tp_sl_trailing that a flat bar leaves with         *)
(* profit_flag = False, as line 309 of apply_tp_sl does, and the series    *)
(* that variant returns.                                                   *)
(***************************************************************************)
trailing_body_flat_reset(w, position, current_price, tp, sl) ==
    LET r == apply_tp_sl_trailing_body(w, position, current_price, tp, sl)
    IN  IF position = 0 THEN [r EXCEPT !.hw.profit_flag = FALSE] ELSE r

RECURSIVE FlatResetOutcome(_, _, _, _, _)
FlatResetOutcome(close, position, tp, sl, k) ==
    trailing_body_flat_reset(
        IF k = 1 THEN TrackingInit
        ELSE FlatResetOutcome(close, position, tp, sl, k - 1).hw,
        position[k], close[k], tp, sl)

FlatResetOutput(close, position, tp, sl) ==
    [k \in DOMAIN position |->
        LET r == FlatResetOutcome(close, position, tp, sl, k)
        IN  IF r.tp_close \/ r.sl_close THEN 0 ELSE position[k]]

\* the tracking locals of the call's own scan after bar k
LocalsAfter(k) ==
    BarOutcome(method, InputClose, InputPosition,
               tp_percentage, sl_percentage, k).hw

\* C15: apply_tp_sl_trailing, which does not clear the profit flag on a
\* flat bar or on a stop-loss exit, returns for every input the same series
\* as the variant of it that clears the flag on flat bars; equivalently,
\* the flag is false whenever the first holding bar of a window (the bar
\* right after its entry bar) is evaluated.
C15_FlagResetUnobservable ==
    /\ (method = "apply_tp_sl_trailing" /\ Returned)
       => Output = FlatResetOutput(InputClose, InputPosition,
                                   tp_percentage, sl_percentage)
    /\ (Scanning("apply_tp_sl_trailing") /\ HoldingBar
          /\ EntryBarOf(i) = i - 1)
       => ~hw.profit_flag

\* C15 witness: apply_tp_sl_trailing has returned from a scan in which a
\* flat bar was passed with the flag still armed and a holding bar of a
\* later window had PnL% >= tp_percentage.
C15_Witness ==
    /\ method = "apply_tp_sl_trailing"
    /\ Returned
    /\ \E k \in DOMAIN InputPosition :
           /\ InputPosition[k] = 0
           /\ LocalsAfter(k).profit_flag
           /\ \E j \in (k + 1)..Len(InputPosition) :
                  LET r == BarOutcome(method, InputClose, InputPosition,
                                      tp_percentage, sl_percentage, j)
                  IN  r.hold /\ r.tp_hit

(***************************************************************************)
(* Claims about the PnL engines and the metrics, under SpecPnL.            *)
(***************************************************************************)
RiskOfRuinCalled == ret.op \in {"risk_of_ruin", "Metrics.risk_of_ruin"}

\* the daily PnL series the last risk_of_ruin call was made on
RiskOfRuinDaily ==
    IF ret.op = "risk_of_ruin" THEN self.daily_pnl ELSE metrics.daily_pnl

\* win_rate is 0: no entry is a winning day (the empty series included)
NoWinningDay(daily) == \A j \in DOMAIN daily : daily[j].value <= 0

SomeLosingDay(daily) == \E j \in DOMAIN daily : daily[j].value < 0

RECURSIVE SumOver(_, _)
SumOver(K, f) ==
    IF K = {} THEN 0
    ELSE LET k == CHOOSE x \in K : TRUE IN f[k] + SumOver(K \ {k}, f)

\* avg_loss is 0: there are losing days and they sum to 0
AvgLossZero(daily) ==
    /\ SomeLosingDay(daily)
    /\ SumOver({j \in DOMAIN daily : daily[j].value < 0}, Values(daily)) = 0

\* C5 (as claimed; refuted by lines 163-169 of metrics.py and 267-270 of
\* single_asset.py): risk_of_ruin never raises, and it returns NaN whenever
\* win_rate is 0 (the empty series and a series with no winning day
\* included) or avg_loss is 0.
C5_RiskOfRuinUndefinedNeverRaises ==
    RiskOfRuinCalled
    => /\ ret.val.k # "raise"
       /\ (NoWinningDay(RiskOfRuinDaily) \/ AvgLossZero(RiskOfRuinDaily))
              => ret.val = NaN

\* What the code does give when win_rate is 0: ZeroDivisionError on the empty
\* series, 0.0 when some day is a losing day, NaN when every day is 0.
RiskOfRuinWithoutWinningDay ==
    (RiskOfRuinCalled /\ NoWinningDay(RiskOfRuinDaily))
    => ret.val = IF RiskOfRuinDaily = << >>
                 THEN [k |-> "raise", exc |-> "ZeroDivisionError"]
                 ELSE IF SomeLosingDay(RiskOfRuinDaily) THEN Num(0, 1)
                 ELSE NaN

Constructed == ppc # "new"

InitRaised(exc) ==
    /\ ppc = "raised"
    /\ ret = [op |-> "__init__", val |-> [k |-> "raise", exc |-> exc]]
    /\ self = [kind |-> "none"]
    /\ metrics = [kind |-> "none"]

InitBuilt ==
    /\ ppc = "built"
    /\ self.kind = cls
    /\ self.pnl_type = arg_pnl_type
    /\ Len(self.df) = Len(arg_df)

\* C6: a pnl_type outside {"raw", "after_fees"} makes either constructor fail
\* with ValueError and leaves no engine state; Backtest_Derivates is built for
\* "raw" and for "after_fees"; TradingBacktest is built for "raw" and fails
\* with NotImplementedError for "after_fees".
C6_PnlTypeValidation ==
    Constructed
    => /\ arg_pnl_type \notin {"raw", "after_fees"} => InitRaised("ValueError")
       /\ (cls = "Backtest_Derivates" /\ arg_pnl_type \in {"raw", "after_fees"})
              => InitBuilt
       /\ (cls = "TradingBacktest" /\ arg_pnl_type = "raw") => InitBuilt
       /\ (cls = "TradingBacktest" /\ arg_pnl_type = "after_fees")
              => InitRaised("NotImplementedError")

\* C6 witness: a constructor was called on a frame of bars with a pnl_type
\* outside {"raw", "after_fees"} and has raised ValueError.
C6_Witness ==
    /\ arg_pnl_type = "net"
    /\ arg_df # << >>
    /\ ppc = "raised"
    /\ ret.val = [k |-> "raise", exc |-> "ValueError"]

AllFlat == \A k \in DOMAIN arg_df : arg_df[k].position = 0

IsNumber(x) == x.k \in {"num", "int"}

\* C7 (as claimed; refuted by line 185 of single_asset.py): on every
\* (non-empty) series estimate_minimum_capital returns a value >= 0, and
\* max_drawdown is a non-positive number when the minimum capital is > 0 and
\* NaN when it is 0, never an exception or an infinity; on an all-flat series
\* the minimum capital is 0 and compute_pnl_percentage and max_drawdown
\* are NaN.
C7_MinimumCapitalAndDrawdown ==
    (self.kind = "TradingBacktest" /\ arg_df # << >>)
    => /\ ret.op = "estimate_minimum_capital"
              => /\ IsNumber(ret.val) /\ ret.val.n >= 0
                 /\ AllFlat => ret.val.n = 0
       /\ ret.op = "max_drawdown"
              => LET c == MinimumCapital(self.capital)
                 IN  /\ IsNumber(c) /\ c.n >= 0
                     /\ c.n > 0 => (ret.val.k = "num" /\ ret.val.n <= 0)
                     /\ c.n = 0 => ret.val = NaN
                     /\ AllFlat => ret.val = NaN
       /\ (ret.op = "compute_pnl_percentage" /\ AllFlat) => ret.val = NaN

\* What the code does give: with a minimum capital of 0, max_drawdown is NaN
\* when the daily PnL never falls below its running peak and -inf when it
\* does; with a minimum capital > 0 it is a non-positive number.
MaxDrawdownOutcomes ==
    (self.kind = "TradingBacktest" /\ arg_df # << >> /\ ret.op = "max_drawdown")
    => LET c == MinimumCapital(self.capital)
           d == DrawdownMin(self.daily_pnl)
       IN  /\ IsNumber(c) /\ c.n >= 0
           /\ c.n > 0 => (ret.val.k = "num" /\ ret.val.n <= 0)
           /\ c.n = 0 => ret.val = IF d.n < 0 THEN NegInf ELSE NaN

\* C8 (as claimed; refuted by lines 54-56 of backtest.py): the overnight fee
\* of bar k is the overnight constant exactly when position[k] > 0 and bar k
\* has a previous bar of another calendar date, and 0 otherwise; the first
\* bar carries none.
C8_OvernightFeeOnDayChange ==
    self.kind = "Backtest_Derivates"
    => \A k \in DOMAIN self.df :
           self.df[k].overnight_fee =
               IF /\ self.df[k].position > 0
                  /\ k > 1
                  /\ self.df[k].date # self.df[k - 1].date
               THEN OvernightFeeNumerator
               ELSE 0

\* What the code does give: the first bar carries the fee whenever it is
\* long, as does every long bar whose date differs from the previous bar's.
OvernightFeeAlsoOnFirstBar ==
    self.kind = "Backtest_Derivates"
    => \A k \in DOMAIN self.df :
           self.df[k].overnight_fee =
               IF /\ self.df[k].position > 0
                  /\ (k = 1 \/ self.df[k].date # self.df[k - 1].date)
               THEN OvernightFeeNumerator
               ELSE 0

Dates(df) == {df[k].date : k \in DOMAIN df}

SelectedPnl(df, pnl_type) == [k \in DOMAIN df |-> PnlColumn(df[k], pnl_type)]

\* one entry per date of `dates`, in date order, each the sum of the selected
\* per-bar PnL over the bars of its date
DailyEntriesOver(daily, dates, df, pnl_type) ==
    /\ Len(daily) = Cardinality(dates)
    /\ {daily[j].date : j \in DOMAIN daily} = dates
    /\ \A j \in 1..(Len(daily) - 1) : daily[j].date < daily[j + 1].date
    /\ \A j \in DOMAIN daily :
           daily[j].value =
               SumOver({k \in DOMAIN df : df[k].date = daily[j].date},
                       SelectedPnl(df, pnl_type))

\* the sum of all entries is the final cumulative per-bar PnL
DailyTotalIsFinalCumulative(daily, df, pnl_type) ==
    SumOver(DOMAIN daily, Values(daily))
        = SumOver(DOMAIN df, SelectedPnl(df, pnl_type))

\* C9 (as claimed; refuted by line 24 of metrics.py): the daily PnL series
\* of the risk metrics, TradingBacktest.daily_pnl and Metrics.daily_pnl, has
\* exactly one entry for each calendar date of the bar series, in
\* chronological order, each the sum of the selected per-bar PnL over that
\* date's bars, so that the entries sum to the final cumulative PnL.
C9_DailyPnlOnePerDate ==
    /\ self.kind = "TradingBacktest"
           => /\ DailyEntriesOver(self.daily_pnl, Dates(arg_df), self.df,
                                  self.pnl_type)
              /\ DailyTotalIsFinalCumulative(self.daily_pnl, self.df,
                                             self.pnl_type)
    /\ metrics.kind = "Metrics"
           => /\ DailyEntriesOver(metrics.daily_pnl, Dates(arg_df), self.df,
                                  self.pnl_type)
              /\ DailyTotalIsFinalCumulative(metrics.daily_pnl, self.df,
                                             self.pnl_type)

\* What the code does give: TradingBacktest.daily_pnl is as claimed, and
\* Metrics.daily_pnl holds the daily sums of every date but the first.
DailyPnlAsBuilt ==
    /\ self.kind = "TradingBacktest"
           => /\ DailyEntriesOver(self.daily_pnl, Dates(arg_df), self.df,
                                  self.pnl_type)
              /\ DailyTotalIsFinalCumulative(self.daily_pnl, self.df,
                                             self.pnl_type)
    /\ metrics.kind = "Metrics"
           => DailyEntriesOver(metrics.daily_pnl,
                               {d \in Dates(arg_df) :
                                   \E e \in Dates(arg_df) : e < d},
                               self.df, self.pnl_type)
====
